---- MODULE Spec2Model ----
(***************************************************************************)
(* Push-notification dispatch of CarbScan's server: the device registry,   *)
(* the message store, sendPushNotification (sendToAudience),               *)
(* sendNotificationMessage (sendStoredMessage) and                         *)
(* processPendingNotifications (processDue), and the routes in front of   *)
(* them: requireAdminAuth and the admin routes, the register and the       *)
(* unregister route.                                                       *)
(*                                                                         *)
(* Every handler runs as a process whose steps are cut at its awaits: one  *)
(* step is one storage call or one gateway submission together with the    *)
(* synchronous code that follows it up to the next await (the ticket loop  *)
(* takes one step per ticket, whether or not the ticket awaits storage).   *)
(***************************************************************************)
EXTENDS Integers, Sequences, FiniteSets, TLC

VARIABLES
    devices,    \* table device_registrations, rows in insertion order
    messages,   \* table notification_messages, row i has id i
    procs,      \* the handler invocations in flight, one per request slot
    now,        \* the clock (new Date())
    calls,      \* dispatch handler invocations started so far
    regs,       \* register / unregister calls made so far
    faults,     \* storage-layer errors raised so far
    adminKey    \* process.env.ADMIN_API_KEY, read when the server starts

vars == <<devices, messages, procs, now, calls, regs, faults, adminKey>>

----------------------------------------------------------------------------
(* Bounds *)

MaxMessages == 2      \* rows of notification_messages
MaxCalls == 2         \* handler invocations per behaviour
MaxFaults == 2        \* storage-layer errors per behaviour
MaxRegistryOps == 3   \* register / unregister calls per behaviour
MaxNow == 2           \* clock range 1..MaxNow
ChunkSize == 2        \* the gateway's maximum batch size, scaled down

Procs == {1, 2}        \* request slots
NULL == 0             \* SQL NULL / undefined for timestamps and ids
NONE == -1            \* an optional counter argument that is not provided

ValidTokens == {"ExponentPushToken[a]", "ExponentPushToken[b]", "ExponentPushToken[c]"}
Tokens == ValidTokens \cup {"not-a-push-token"}

\* the (user, token) pairs the register calls are drawn from
RegisterInputs ==
    { [userId |-> "u1", token |-> "ExponentPushToken[a]", platform |-> "ios",
       deviceModel |-> "m1"],
      [userId |-> "u1", token |-> "ExponentPushToken[b]", platform |-> "android",
       deviceModel |-> "m2"],
      [userId |-> "u2", token |-> "ExponentPushToken[c]", platform |-> "ios",
       deviceModel |-> "m1"],
      [userId |-> "u2", token |-> "not-a-push-token", platform |-> "android",
       deviceModel |-> "m2"] }

\* the request bodies of POST /devices/register: the same token registered
\* with other metadata and by another user, a second token, and a body the
\* schema rejects (deviceModel stands for deviceModel, osVersion, appVersion)
RegisterBodies ==
    { [userId |-> "u1", token |-> "ExponentPushToken[a]", platform |-> "ios",
       deviceModel |-> "m1"],
      [userId |-> "u1", token |-> "ExponentPushToken[a]", platform |-> "android",
       deviceModel |-> "m2"],
      [userId |-> "u2", token |-> "ExponentPushToken[a]", platform |-> "ios",
       deviceModel |-> "m1"],
      [userId |-> "u2", token |-> "ExponentPushToken[b]", platform |-> "android",
       deviceModel |-> "m2"],
      [userId |-> "u1", token |-> "", platform |-> "ios", deviceModel |-> "m1"] }

\* the expoPushToken of the bodies of POST /devices/unregister
UnregisterTokens == {"ExponentPushToken[a]", "ExponentPushToken[b]", ""}

\* ADMIN_API_KEY (NoKey: the variable is not set) and the x-admin-api-key
\* headers admin requests arrive with (NoKey: the header is missing)
NoKey == ""
AdminKey == "secret"
AdminKeys == {NoKey, AdminKey}
ApiKeys == {NoKey, "wrong", AdminKey}

\* the Authorization headers requests arrive with
NoHeader == [scheme |-> "", token |-> ""]
AuthHeaders ==
    { NoHeader,
      [scheme |-> "Basic", token |-> "t-u1"],
      [scheme |-> "Bearer", token |-> "t-u1"],
      [scheme |-> "Bearer", token |-> "t-u2"],
      [scheme |-> "Bearer", token |-> "expired"] }

\* targetUserIds of an inline trigger (userIds: z.array(z.string()).optional())
TargetChoices == { <<>>, <<"u1">>, <<"u2">>, <<"u1", "u2">>, <<"u1", "u1">> }

\* the payloads and schedules the create route is called with
Undefined == [tag |-> "undefined", k |-> 0]
EmptyObject == [tag |-> "object", k |-> 0]      \* {}
Payload == [tag |-> "object", k |-> 1]          \* {k: 1}
CreateInputs ==
    { [data |-> Undefined, scheduledFor |-> NULL],
      [data |-> Payload,   scheduledFor |-> NULL],
      [data |-> Undefined, scheduledFor |-> MaxNow] }

\* what the gateway can answer for one submitted message
TicketOk == [status |-> "ok", error |-> ""]
TicketDNR == [status |-> "error", error |-> "DeviceNotRegistered"]
TicketRate == [status |-> "error", error |-> "MessageRateExceeded"]
TicketBare == [status |-> "error", error |-> ""]   \* an error ticket without details
Tickets == {TicketOk, TicketDNR, TicketRate, TicketBare}

----------------------------------------------------------------------------
(* Sequence helpers *)

RECURSIVE Flat(_)
Flat(ss) == IF ss = <<>> THEN <<>> ELSE Head(ss) \o Flat(Tail(ss))

RECURSIVE SumLen(_)
SumLen(ss) == IF ss = <<>> THEN 0 ELSE Len(Head(ss)) + SumLen(Tail(ss))

Min(a, b) == IF a < b THEN a ELSE b

SeqsOfLen(S, n) == [1..n -> S]

Range(s) == { s[i] : i \in DOMAIN s }

----------------------------------------------------------------------------
(* Device registry (DatabaseStorage) *)

getDeviceByToken(devs, token) ==
    SelectSeq(devs, LAMBDA d : d.token = token)

\* (mutant) re-registration leaves the previous owner in place
updateRegistration_KeepsOwner(devs, registration) ==
    [ i \in DOMAIN devs |->
        IF devs[i].token = registration.token
        THEN [devs[i] EXCEPT !.platform = registration.platform,
                             !.deviceModel = registration.deviceModel,
                             !.enabled = TRUE]
        ELSE devs[i] ]

\* the UPDATE branch of registerDevice
updateRegistration(devs, registration) ==
    [ i \in DOMAIN devs |->
        IF devs[i].token = registration.token
        THEN [devs[i] EXCEPT !.userId = registration.userId,
                             !.platform = registration.platform,
                             !.deviceModel = registration.deviceModel,
                             !.enabled = TRUE]
        ELSE devs[i] ]

\* the INSERT branch of registerDevice (enabled defaults to true)
insertRegistration(devs, registration) ==
    Append(devs, [id |-> Len(devs) + 1, userId |-> registration.userId,
                  token |-> registration.token, platform |-> registration.platform,
                  deviceModel |-> registration.deviceModel,
                  enabled |-> TRUE, lastNotifiedAt |-> NULL])

registerDevice(devs, registration) ==
    IF getDeviceByToken(devs, registration.token) # <<>>
    THEN updateRegistration(devs, registration)
    ELSE insertRegistration(devs, registration)

\* (mutant) the row is deleted instead of disabled
unregisterDevice_Deletes(devs, token) ==
    SelectSeq(devs, LAMBDA d : d.token # token)

unregisterDevice(devs, token) ==
    [ i \in DOMAIN devs |->
        IF devs[i].token = token THEN [devs[i] EXCEPT !.enabled = FALSE] ELSE devs[i] ]

\* (mutant) disabled endpoints are listed too
getDevicesForUser_IgnoresEnabled(devs, userId) ==
    SelectSeq(devs, LAMBDA d : d.userId = userId)

getDevicesForUser(devs, userId) ==
    SelectSeq(devs, LAMBDA d : d.userId = userId /\ d.enabled)

getEnabledDevices(devs) ==
    SelectSeq(devs, LAMBDA d : d.enabled)

updateDeviceLastNotified(devs, id, t) ==
    [ i \in DOMAIN devs |->
        IF devs[i].id = id THEN [devs[i] EXCEPT !.lastNotifiedAt = t] ELSE devs[i] ]

----------------------------------------------------------------------------
(* Message store (DatabaseStorage) *)

NoMessage == [id |-> NULL, data |-> "", status |-> "none", scheduledFor |-> NULL,
              sentAt |-> NULL, successCount |-> 0, failureCount |-> 0]

createNotificationMessage(msgs, data, scheduledFor) ==
    Append(msgs, [id |-> Len(msgs) + 1, data |-> data, status |-> "pending",
                  scheduledFor |-> scheduledFor, sentAt |-> NULL,
                  successCount |-> 0, failureCount |-> 0])

getNotificationMessage(msgs, id) ==
    IF id \in DOMAIN msgs THEN msgs[id] ELSE NoMessage

\* (mutant) the schedule is not consulted
getPendingNotifications_IgnoresSchedule(msgs, t) ==
    SelectSeq(msgs, LAMBDA m : m.status = "pending")

getPendingNotifications(msgs, t) ==
    SelectSeq(msgs, LAMBDA m : m.status = "pending"
                               /\ (m.scheduledFor = NULL \/ m.scheduledFor <= t))

\* (mutant) sentAt is stamped on every status change
updateNotificationStatus_AlwaysStamps(msgs, id, status, successCount, failureCount, t) ==
    [ i \in DOMAIN msgs |->
        IF msgs[i].id = id
        THEN [msgs[i] EXCEPT
                !.status = status,
                !.sentAt = t,
                !.successCount = IF successCount # NONE THEN successCount ELSE @,
                !.failureCount = IF failureCount # NONE THEN failureCount ELSE @]
        ELSE msgs[i] ]

\* (mutant) the counters passed in are not written
updateNotificationStatus_DropsCounters(msgs, id, status, successCount, failureCount, t) ==
    [ i \in DOMAIN msgs |->
        IF msgs[i].id = id
        THEN [msgs[i] EXCEPT
                !.status = status,
                !.sentAt = IF status = "sent" THEN t ELSE @]
        ELSE msgs[i] ]

updateNotificationStatus(msgs, id, status, successCount, failureCount, t) ==
    [ i \in DOMAIN msgs |->
        IF msgs[i].id = id
        THEN [msgs[i] EXCEPT
                !.status = status,
                !.sentAt = IF status = "sent" THEN t ELSE @,
                !.successCount = IF successCount # NONE THEN successCount ELSE @,
                !.failureCount = IF failureCount # NONE THEN failureCount ELSE @]
        ELSE msgs[i] ]

----------------------------------------------------------------------------
(* JSON and the push gateway (expo-server-sdk) *)

JSONstringify(v) == IF v.k = 1 THEN "{\"k\":1}" ELSE "{}"
JSONparse(text) == IF text = "{\"k\":1}" THEN Payload ELSE EmptyObject

isExpoPushToken(token) == token \in ValidTokens

RECURSIVE chunkPushNotifications(_)
chunkPushNotifications(msgs) ==
    IF Len(msgs) = 0 THEN <<>>
    ELSE LET n == Min(ChunkSize, Len(msgs))
         IN <<SubSeq(msgs, 1, n)>> \o chunkPushNotifications(SubSeq(msgs, n + 1, Len(msgs)))

----------------------------------------------------------------------------
(* The identity service and the request schemas of the device routes *)

\* (mutant) an unset ADMIN_API_KEY is not checked for
requireAdminAuth_NoConfigCheck(key, apiKey) ==
    IF apiKey # key THEN 401 ELSE 0

\* the middleware of the admin routes: the status it answers with, 0 for next()
requireAdminAuth(key, apiKey) ==
    IF key = NoKey THEN 503
    ELSE IF apiKey # key THEN 401
    ELSE 0

NoUser == ""          \* verifyAccessToken's null

\* GET carbscan.ai /auth/me: the user a bearer token belongs to
AuthMe(token) ==
    CASE token = "t-u1" -> "u1"
      [] token = "t-u2" -> "u2"
      [] OTHER -> NoUser

verifyAccessToken(authHeader) ==
    IF authHeader = NoHeader \/ authHeader.scheme # "Bearer"
    THEN NoUser
    ELSE AuthMe(authHeader.token)

NoBody == [userId |-> "", token |-> "", platform |-> "", deviceModel |-> ""]

\* registerDeviceSchema.parse and unregisterDeviceSchema.parse do not throw
registerDeviceSchema(body) ==
    /\ body.token # ""
    /\ body.platform \in {"ios", "android"}
    /\ body.userId # ""

unregisterDeviceSchema(body) == body.token # ""

----------------------------------------------------------------------------
(* A handler invocation: its position (pc) and its local variables *)

SendResult(successCount, failureCount, errors) ==
    [successCount |-> successCount, failureCount |-> failureCount, errors |-> errors]

NoResult == SendResult(0, 0, <<>>)

\* one entry of SendResult.errors
ErrText(text) == [text |-> text, token |-> "", detail |-> ""]
ErrTicket(token, reason) == [text |-> "<token>: <reason>", token |-> token, detail |-> reason]
ErrAlready(status) == [text |-> "Message already <status>", token |-> "", detail |-> status]

IdleProc ==
    [ pc |-> "idle",
      kind |-> "none",          \* trigger | send | process | register | unregister
      outcome |-> "none",       \* returned | raised | rejected
      status |-> 0,             \* the HTTP status of the response
      result |-> NoResult,
      apiKey |-> NoKey,         \* req.headers["x-admin-api-key"]
      \* the device routes
      auth |-> NoHeader,        \* req.headers.authorization
      body |-> NoBody,          \* req.body
      user |-> NoUser,          \* the verified user's id
      existing |-> <<>>,        \* what getDeviceByToken returned
      \* processPendingNotifications
      pending |-> <<>>, idx |-> 0,
      attempted |-> <<>>,       \* (history) ids handed to sendNotificationMessage
      \* sendNotificationMessage
      msgId |-> NULL, message |-> NoMessage, data |-> Undefined,
      \* sendPushNotification
      targets |-> <<>>, devs |-> <<>>, validDevices |-> <<>>, chunks |-> <<>>, ci |-> 0,
      tickets |-> <<>>, ti |-> 0, successCount |-> 0, failureCount |-> 0, errors |-> <<>>,
      subs |-> <<>>,            \* (history) the gateway calls of this send
      applied |-> <<>>,         \* (history) ticket i, its own token, the device it was applied to
      writes |-> 0 ]            \* (history) storage writes made for the current message

\* the handler ends: HTTP 200 with the result, or HTTP 500 after a raise
Returned(l, res) ==
    [l EXCEPT !.pc = "done", !.outcome = "returned", !.status = 200, !.result = res]
Raised(l) == [l EXCEPT !.pc = "done", !.outcome = "raised", !.status = 500]

\* (mutant) a result that counts failures is answered as an error
TriggerResponse_FailuresAreErrors(l) ==
    IF l.outcome = "returned" /\ l.result.failureCount = 0
    THEN [status |-> 200, successCount |-> l.result.successCount,
          failureCount |-> l.result.failureCount]
    ELSE [status |-> 500]

\* what the trigger route answers once its handler has ended: the counts, and
\* the errors only when there are any
TriggerResponse(l) ==
    IF l.outcome = "returned"
    THEN IF Len(l.result.errors) > 0
         THEN [status |-> 200, successCount |-> l.result.successCount,
               failureCount |-> l.result.failureCount, errors |-> l.result.errors]
         ELSE [status |-> 200, successCount |-> l.result.successCount,
               failureCount |-> l.result.failureCount]
    ELSE [status |-> l.status]

\* the handler answers with an error status and returns early
Rejected(l, status) == [l EXCEPT !.pc = "done", !.outcome = "rejected", !.status = status]

\* sendNotificationMessage(id) is entered: fresh locals of the callee
EnterSendNotificationMessage(l, id) ==
    [l EXCEPT !.pc = "sm_get", !.msgId = id, !.message = NoMessage, !.data = Undefined,
              !.targets = <<>>, !.devs = <<>>, !.validDevices = <<>>, !.chunks = <<>>,
              !.ci = 0, !.tickets = <<>>, !.ti = 0, !.successCount = 0,
              !.failureCount = 0, !.errors = <<>>, !.subs = <<>>, !.applied = <<>>,
              !.writes = 0, !.result = NoResult, !.attempted = Append(@, id)]

\* the for loop of processPendingNotifications moves on past message idx
LoopNext(l) ==
    IF l.idx < Len(l.pending)
    THEN EnterSendNotificationMessage([l EXCEPT !.idx = @ + 1], l.pending[l.idx + 1])
    ELSE Returned(l, NoResult)

\* sendNotificationMessage returns res to its caller
ReturnFromMessage(l, res) ==
    IF l.kind = "process" THEN LoopNext([l EXCEPT !.result = res]) ELSE Returned(l, res)

\* sendPushNotification returns res to its caller
ReturnFromPush(l, res) ==
    IF l.kind = "send" THEN Returned(l, res) ELSE [l EXCEPT !.pc = "sm_sent", !.result = res]

\* an awaited storage call rejects: the try/catch of processPendingNotifications
\* catches what sendNotificationMessage throws, everything else reaches the route
InMessagePcs == {"sm_get", "sm_sending", "sp_resolve", "sp_ticket", "sm_sent"}
\* (mutant) the catch that marks the message failed surrounds every caller
Throw_AnyCaller(l) ==
    IF l.pc \in InMessagePcs
    THEN [l EXCEPT !.pc = "pd_failed"]
    ELSE Raised(l)

Throw(l) ==
    IF l.kind = "process" /\ l.pc \in InMessagePcs
    THEN [l EXCEPT !.pc = "pd_failed"]
    ELSE Raised(l)

----------------------------------------------------------------------------
(* sendPushNotification *)

ResolveDevices(devs, targets) ==
    IF Len(targets) > 0
    THEN Flat([ i \in DOMAIN targets |-> getDevicesForUser(devs, targets[i]) ])
    ELSE getEnabledDevices(devs)

\* (mutant) the validity check of lines 38-41 is skipped
ValidDevices_NoFilter(found) == found

ValidDevices(found) == SelectSeq(found, LAMBDA d : isExpoPushToken(d.token))

PushMessages(valid) == [ i \in DOMAIN valid |-> valid[i].token ]

\* (mutant) the dropped candidates are not counted as failures
Partitioned_DroppedUncounted(l, found) ==
    IF Len(PushMessages(ValidDevices(found))) = 0
    THEN ReturnFromPush([l EXCEPT !.devs = found],
                        SendResult(0, 0, <<ErrText("No valid push tokens found")>>))
    ELSE [l EXCEPT !.pc = "sp_chunk", !.devs = found,
                   !.validDevices = ValidDevices(found),
                   !.chunks = chunkPushNotifications(PushMessages(ValidDevices(found))),
                   !.ci = 1]

\* lines 34-57: partition, the "no valid tokens" result and chunking
Partitioned(l, found) ==
    IF Len(PushMessages(ValidDevices(found))) = 0
    THEN ReturnFromPush([l EXCEPT !.devs = found],
                        SendResult(0, Len(found), <<ErrText("No valid push tokens found")>>))
    ELSE [l EXCEPT !.pc = "sp_chunk", !.devs = found,
                   !.validDevices = ValidDevices(found),
                   !.chunks = chunkPushNotifications(PushMessages(ValidDevices(found))),
                   !.ci = 1]

\* (mutant) the empty-audience check of lines 30-32 is missing
Resolved_NoEmptyCheck(l, found) == Partitioned(l, found)

\* lines 19-32: the resolved devices and the "no devices" result
Resolved(l, found) ==
    IF Len(found) = 0
    THEN ReturnFromPush(l, SendResult(0, 0, <<ErrText("No registered devices found")>>))
    ELSE Partitioned(l, found)

\* line 48: data || {}
PushData(l) == IF l.data = Undefined THEN EmptyObject ELSE l.data

\* lines 65-66: the gateway answered chunk ci with tks
ChunkSent(l, tks) ==
    [l EXCEPT !.tickets = @ \o tks,
              !.subs = Append(@, [to |-> l.chunks[l.ci], data |-> PushData(l),
                                  threw |-> FALSE, tickets |-> tks]),
              !.ci = @ + 1]

\* (mutant) a chunk that threw counts as one failure
ChunkThrew_CountsOne(l) ==
    [l EXCEPT !.errors = Append(@, ErrText("Error: push gateway unavailable")),
              !.failureCount = @ + 1,
              !.subs = Append(@, [to |-> l.chunks[l.ci], data |-> PushData(l),
                                  threw |-> TRUE, tickets |-> <<>>]),
              !.ci = @ + 1]

\* lines 67-71: the gateway call for chunk ci threw
ChunkThrew(l) ==
    [l EXCEPT !.errors = Append(@, ErrText("Error: push gateway unavailable")),
              !.failureCount = @ + Len(l.chunks[l.ci]),
              !.subs = Append(@, [to |-> l.chunks[l.ci], data |-> PushData(l),
                                  threw |-> TRUE, tickets |-> <<>>]),
              !.ci = @ + 1]

\* line 63 / 74 / 93: next chunk, or on to the tickets, or return when there are none
AfterChunk(l) ==
    IF l.ci <= Len(l.chunks) THEN l
    ELSE IF Len(l.tickets) = 0
    THEN ReturnFromPush(l, SendResult(l.successCount, l.failureCount, l.errors))
    ELSE [l EXCEPT !.pc = "sp_ticket", !.ti = 1]

\* the tokens of the gateway calls that answered, in ticket order
TicketTokens(l) ==
    Flat([ k \in DOMAIN l.subs |-> IF l.subs[k].threw THEN <<>> ELSE l.subs[k].to ])

\* line 76: the device ticket i is applied to
TicketDevice(l, i) == l.validDevices[i]

\* lines 75-90: the counters and errors after ticket ti
TicketCounted(l) ==
    LET ticket == l.tickets[l.ti]
        device == TicketDevice(l, l.ti)
    IN  IF ticket.status = "ok"
        THEN [l EXCEPT !.successCount = @ + 1]
        ELSE [l EXCEPT !.failureCount = @ + 1,
                       !.errors = IF ticket.error # ""
                                  THEN Append(@, ErrTicket(device.token, ticket.error))
                                  ELSE @]

\* lines 80 / 87: the registry after ticket ti
TicketStored(devs, l, t) ==
    LET ticket == l.tickets[l.ti]
        device == TicketDevice(l, l.ti)
    IN  IF ticket.status = "ok" THEN updateDeviceLastNotified(devs, device.id, t)
        ELSE IF ticket.error = "DeviceNotRegistered" THEN unregisterDevice(devs, device.token)
        ELSE devs

\* line 74 / 93: next ticket, or return
AfterTicket(l) ==
    LET l2 == [l EXCEPT !.applied = Append(@, [ticket |-> l.tickets[l.ti],
                                               token |-> TicketTokens(l)[l.ti],
                                               device |-> TicketDevice(l, l.ti)]),
                        !.ti = @ + 1]
    IN  IF l2.ti <= Len(l2.tickets) THEN l2
        ELSE ReturnFromPush(l2, SendResult(l2.successCount, l2.failureCount, l2.errors))

\* whether the current step of l awaits a storage call
TicketAwaits(l) ==
    l.tickets[l.ti].status = "ok" \/ l.tickets[l.ti].error = "DeviceNotRegistered"

----------------------------------------------------------------------------
(* sendNotificationMessage *)

AlreadyResult(status) == SendResult(0, 0, <<ErrAlready(status)>>)
NotFoundResult == SendResult(0, 0, <<ErrText("Notification message not found")>>)

\* line 107: the message is accepted for sending
Accepted(l, message) == [l EXCEPT !.pc = "sm_sending", !.message = message]

\* (mutant) the status check of lines 103-105 is missing
Looked_IgnoresStatus(l, message) ==
    IF message = NoMessage THEN ReturnFromMessage(l, NotFoundResult)
    ELSE Accepted(l, message)

\* lines 97-105: the lookup and the two rejections
Looked(l, message) ==
    IF message = NoMessage THEN ReturnFromMessage(l, NotFoundResult)
    ELSE IF message.status # "pending"
    THEN ReturnFromMessage([l EXCEPT !.message = message], AlreadyResult(message.status))
    ELSE Accepted(l, message)

\* lines 109-110: parse the payload, call sendPushNotification(title, body, data)
Parsed(l) ==
    [l EXCEPT !.pc = "sp_resolve",
              !.data = IF l.message.data # "" THEN JSONparse(l.message.data) ELSE Undefined,
              !.targets = <<>>]

----------------------------------------------------------------------------
(* Init and the actions *)

Init ==
    /\ devices = <<>>
    /\ messages = <<>>
    /\ procs = [ p \in Procs |-> IdleProc ]
    /\ now = 1
    /\ calls = 0
    /\ regs = 0
    /\ faults = 0
    /\ adminKey = AdminKey

\* the server starts with or without ADMIN_API_KEY in its environment
InitAdmin ==
    /\ devices = <<>>
    /\ messages = <<>>
    /\ procs = [ p \in Procs |-> IdleProc ]
    /\ now = 1
    /\ calls = 0
    /\ regs = 0
    /\ faults = 0
    /\ adminKey \in AdminKeys

Step(p, l) == procs' = [procs EXCEPT ![p] = l]

Wrote(l, n) == [l EXCEPT !.writes = @ + n]

\* storage.registerDevice, called by POST /api/mobile/v1/devices/register
RegisterDevice(in) ==
    /\ devices' = registerDevice(devices, in)
    /\ regs' = regs + 1
    /\ UNCHANGED <<messages, procs, now, calls, faults, adminKey>>

\* storage.unregisterDevice, called by POST /api/mobile/v1/devices/unregister
UnregisterDevice(token) ==
    /\ devices' = unregisterDevice(devices, token)
    /\ regs' = regs + 1
    /\ UNCHANGED <<messages, procs, now, calls, faults, adminKey>>

\* POST /api/mobile/v1/devices/register arrives: the body is parsed
StartRegister(p, auth, body) ==
    /\ procs[p].pc = "idle"
    /\ LET l == [IdleProc EXCEPT !.kind = "register", !.auth = auth, !.body = body]
       IN Step(p, IF registerDeviceSchema(body)
                  THEN [l EXCEPT !.pc = "rr_verify"]
                  ELSE Rejected(l, 400))
    /\ regs' = regs + 1
    /\ UNCHANGED <<devices, messages, now, calls, faults, adminKey>>

\* (mutant) the userId of the body is not compared with the verified user
Verified_NoOwnerCheck(l) ==
    LET user == verifyAccessToken(l.auth)
    IN  IF user = NoUser THEN Rejected(l, 401)
        ELSE [l EXCEPT !.user = user, !.pc = "rd_get"]

\* ... await verifyAccessToken, then the two authorization checks
Verified(l) ==
    LET user == verifyAccessToken(l.auth)
    IN  IF user = NoUser THEN Rejected(l, 401)
        ELSE IF user # l.body.userId THEN Rejected(l, 403)
        ELSE [l EXCEPT !.user = user, !.pc = "rd_get"]

RrVerify(p) ==
    /\ procs[p].pc = "rr_verify"
    /\ Step(p, Verified(procs[p]))
    /\ UNCHANGED <<devices, messages, now, calls, regs, faults, adminKey>>

\* the registration storage.registerDevice is called with
Registration(l) == [l.body EXCEPT !.userId = l.user]

\* ... storage.registerDevice: await this.getDeviceByToken
RdGet(p) ==
    /\ procs[p].pc = "rd_get"
    /\ LET existing == getDeviceByToken(devices, procs[p].body.token)
       IN Step(p, [procs[p] EXCEPT !.existing = existing,
                                   !.pc = IF existing # <<>> THEN "rd_update"
                                                             ELSE "rd_insert"])
    /\ UNCHANGED <<devices, messages, now, calls, regs, faults, adminKey>>

\* ... storage.registerDevice: await db.update, the route answers 200
RdUpdate(p) ==
    /\ procs[p].pc = "rd_update"
    /\ devices' = updateRegistration(devices, Registration(procs[p]))
    /\ Step(p, Returned(procs[p], NoResult))
    /\ UNCHANGED <<messages, now, calls, regs, faults, adminKey>>

\* ... storage.registerDevice: await db.insert; the unique constraint on
\* expo_push_token rejects a second row for the token and the route answers 500
RdInsert(p) ==
    /\ procs[p].pc = "rd_insert"
    /\ IF getDeviceByToken(devices, procs[p].body.token) # <<>>
       THEN /\ Step(p, Raised(procs[p]))
            /\ UNCHANGED devices
       ELSE /\ devices' = insertRegistration(devices, Registration(procs[p]))
            /\ Step(p, Returned(procs[p], NoResult))
    /\ UNCHANGED <<messages, now, calls, regs, faults, adminKey>>

\* POST /api/mobile/v1/devices/unregister arrives: the body is parsed
StartUnregister(p, auth, token) ==
    /\ procs[p].pc = "idle"
    /\ LET l == [IdleProc EXCEPT !.kind = "unregister", !.auth = auth,
                                 !.body = [NoBody EXCEPT !.token = token]]
       IN Step(p, IF unregisterDeviceSchema(l.body)
                  THEN [l EXCEPT !.pc = "ur_verify"]
                  ELSE Rejected(l, 400))
    /\ regs' = regs + 1
    /\ UNCHANGED <<devices, messages, now, calls, faults, adminKey>>

\* ... await verifyAccessToken
UrVerify(p) ==
    /\ procs[p].pc = "ur_verify"
    /\ LET user == verifyAccessToken(procs[p].auth)
       IN Step(p, IF user = NoUser
                  THEN Rejected(procs[p], 401)
                  ELSE [procs[p] EXCEPT !.user = user, !.pc = "ur_get"])
    /\ UNCHANGED <<devices, messages, now, calls, regs, faults, adminKey>>

\* ... await storage.getDeviceByToken, then the ownership check
OwnerChecked(l, existing) ==
    IF existing # <<>> /\ existing[1].userId # l.user
    THEN Rejected([l EXCEPT !.existing = existing], 403)
    ELSE [l EXCEPT !.existing = existing, !.pc = "ur_write"]

UrGet(p) ==
    /\ procs[p].pc = "ur_get"
    /\ Step(p, OwnerChecked(procs[p], getDeviceByToken(devices, procs[p].body.token)))
    /\ UNCHANGED <<devices, messages, now, calls, regs, faults, adminKey>>

\* ... await storage.unregisterDevice, the route answers 200
UrWrite(p) ==
    /\ procs[p].pc = "ur_write"
    /\ devices' = unregisterDevice(devices, procs[p].body.token)
    /\ Step(p, Returned(procs[p], NoResult))
    /\ UNCHANGED <<messages, now, calls, regs, faults, adminKey>>

\* POST /api/notifications/create
CreateMessage(in) ==
    /\ Len(messages) < MaxMessages
    /\ messages' = createNotificationMessage(
                       messages,
                       IF in.data # Undefined THEN JSONstringify(in.data) ELSE "",
                       in.scheduledFor)
    /\ UNCHANGED <<devices, procs, now, calls, regs, faults, adminKey>>

\* requireAdminAuth in front of a handler that starts with the locals l:
\* next() enters the handler, otherwise the middleware answers
Admitted(apiKey, l) ==
    LET status == requireAdminAuth(adminKey, apiKey)
    IN  IF status = 0
        THEN [l EXCEPT !.apiKey = apiKey]
        ELSE Rejected([IdleProc EXCEPT !.kind = l.kind, !.apiKey = apiKey], status)

\* a request with the header apiKey arrives at an admin route whose handler
\* starts with the locals l
AdminRoute(p, apiKey, l) ==
    /\ procs[p].pc = "idle"
    /\ calls' = calls + 1
    /\ Step(p, Admitted(apiKey, l))
    /\ UNCHANGED <<devices, messages, now, regs, faults, adminKey>>

\* POST /api/notifications/create
CreateRoute(p, apiKey, in) ==
    AdminRoute(p, apiKey, [IdleProc EXCEPT !.kind = "create", !.pc = "cr_insert",
                                           !.body = in])

\* ... await storage.createNotificationMessage, the route answers 200
CrInsert(p) ==
    /\ procs[p].pc = "cr_insert"
    /\ Len(messages) < MaxMessages
    /\ messages' = createNotificationMessage(
                       messages,
                       IF procs[p].body.data # Undefined
                       THEN JSONstringify(procs[p].body.data) ELSE "",
                       procs[p].body.scheduledFor)
    /\ Step(p, Returned(procs[p], NoResult))
    /\ UNCHANGED <<devices, now, calls, regs, faults, adminKey>>

\* POST /api/notifications/trigger with a messageId
TriggerRoute(p, apiKey, id) ==
    AdminRoute(p, apiKey, EnterSendNotificationMessage([IdleProc EXCEPT !.kind = "trigger"], id))

\* POST /api/notifications/trigger with title and body
SendRoute(p, apiKey, targets) ==
    AdminRoute(p, apiKey, [IdleProc EXCEPT !.kind = "send", !.pc = "sp_resolve",
                                           !.targets = targets])

\* POST /api/notifications/trigger with neither a messageId nor title and body
TriggerNothing(p, apiKey) ==
    AdminRoute(p, apiKey, Rejected([IdleProc EXCEPT !.kind = "trigger"], 400))

\* POST /api/notifications/process-pending
ProcessRoute(p, apiKey) ==
    AdminRoute(p, apiKey, [IdleProc EXCEPT !.kind = "process", !.pc = "pd_list"])

\* GET /api/notifications/pending
PendingRoute(p, apiKey) ==
    AdminRoute(p, apiKey, [IdleProc EXCEPT !.kind = "pending", !.pc = "gp_list"])

\* ... await storage.getPendingNotifications, the route answers 200
GpList(p) ==
    /\ procs[p].pc = "gp_list"
    /\ LET due == getPendingNotifications(messages, now)
       IN  Step(p, Returned([procs[p] EXCEPT !.pending = [ i \in DOMAIN due |-> due[i].id ]],
                            NoResult))
    /\ UNCHANGED <<devices, messages, now, calls, regs, faults, adminKey>>

\* the same requests carrying the configured key
StartTrigger(p, id) == TriggerRoute(p, adminKey, id)

StartSend(p, targets) == SendRoute(p, adminKey, targets)

StartProcess(p) == ProcessRoute(p, adminKey)

\* processPendingNotifications: await storage.getPendingNotifications()
PdList(p) ==
    /\ procs[p].pc = "pd_list"
    /\ LET due == getPendingNotifications(messages, now)
       IN  Step(p, LoopNext([procs[p] EXCEPT !.pending = [ i \in DOMAIN due |-> due[i].id ],
                                             !.idx = 0]))
    /\ UNCHANGED <<devices, messages, now, calls, regs, faults, adminKey>>

\* sendNotificationMessage: await storage.getNotificationMessage(messageId)
SmGet(p) ==
    /\ procs[p].pc = "sm_get"
    /\ Step(p, Looked(procs[p], getNotificationMessage(messages, procs[p].msgId)))
    /\ UNCHANGED <<devices, messages, now, calls, regs, faults, adminKey>>

\* sendNotificationMessage: await storage.updateNotificationStatus(messageId, "sending")
SmSending(p) ==
    /\ procs[p].pc = "sm_sending"
    /\ messages' = updateNotificationStatus(messages, procs[p].msgId, "sending", NONE, NONE, now)
    /\ Step(p, Wrote(Parsed(procs[p]), 1))
    /\ UNCHANGED <<devices, now, calls, regs, faults, adminKey>>

\* sendPushNotification: await storage.getDevicesForUser / getEnabledDevices
SpResolve(p) ==
    /\ procs[p].pc = "sp_resolve"
    /\ Step(p, Resolved(procs[p], ResolveDevices(devices, procs[p].targets)))
    /\ UNCHANGED <<devices, messages, now, calls, regs, faults, adminKey>>

\* sendPushNotification: await expo.sendPushNotificationsAsync(chunk)
SpChunk(p) ==
    /\ procs[p].pc = "sp_chunk"
    /\ \/ \E tks \in SeqsOfLen(Tickets, Len(procs[p].chunks[procs[p].ci])) :
             Step(p, AfterChunk(ChunkSent(procs[p], tks)))
       \/ Step(p, AfterChunk(ChunkThrew(procs[p])))
    /\ UNCHANGED <<devices, messages, now, calls, regs, faults, adminKey>>

\* sendPushNotification: one round of the ticket loop
SpTicket(p) ==
    /\ procs[p].pc = "sp_ticket"
    /\ devices' = TicketStored(devices, procs[p], now)
    /\ Step(p, Wrote(AfterTicket(TicketCounted(procs[p])),
                      IF TicketAwaits(procs[p]) THEN 1 ELSE 0))
    /\ UNCHANGED <<messages, now, calls, regs, faults, adminKey>>

\* sendNotificationMessage: await storage.updateNotificationStatus(messageId, "sent", ...)
SmSent(p) ==
    /\ procs[p].pc = "sm_sent"
    /\ messages' = updateNotificationStatus(messages, procs[p].msgId, "sent",
                       procs[p].result.successCount, procs[p].result.failureCount, now)
    /\ Step(p, ReturnFromMessage(Wrote(procs[p], 1), procs[p].result))
    /\ UNCHANGED <<devices, now, calls, regs, faults, adminKey>>

\* processPendingNotifications, catch: await storage.updateNotificationStatus(id, "failed")
PdFailed(p) ==
    /\ procs[p].pc = "pd_failed"
    /\ messages' = updateNotificationStatus(messages, procs[p].msgId, "failed", NONE, NONE, now)
    /\ Step(p, LoopNext(procs[p]))
    /\ UNCHANGED <<devices, now, calls, regs, faults, adminKey>>

\* the storage call the invocation is awaiting rejects
AwaitsStorage(l) ==
    \/ l.pc \in {"pd_list", "sm_get", "sm_sending", "sp_resolve", "sm_sent", "pd_failed"}
    \/ l.pc \in {"rd_get", "rd_update", "rd_insert", "ur_get", "ur_write"}
    \/ l.pc \in {"cr_insert", "gp_list"}
    \/ l.pc = "sp_ticket" /\ TicketAwaits(l)

StorageFails(p) ==
    /\ AwaitsStorage(procs[p])
    /\ faults' = faults + 1
    /\ Step(p, Throw(procs[p]))
    /\ UNCHANGED <<devices, messages, now, calls, regs, adminKey>>

\* the response is written, the request slot is free again
Reset(p) ==
    /\ procs[p].pc = "done"
    /\ Step(p, IdleProc)
    /\ UNCHANGED <<devices, messages, now, calls, regs, faults, adminKey>>

Tick ==
    /\ now < MaxNow
    /\ now' = now + 1
    /\ UNCHANGED <<devices, messages, procs, calls, regs, faults, adminKey>>

----------------------------------------------------------------------------
(* Specifications.  Each one bounds the calls it explores in the guards of  *)
(* its next-state relation.                                                *)

Idle(p) == procs[p].pc = "idle"

\* Spec: requests served one at a time: register and unregister calls, one
\* stored message, and one dispatch (trigger by id or inline) over the registry
Next ==
    \/ \E in \in RegisterInputs : regs < MaxRegistryOps /\ Idle(1) /\ RegisterDevice(in)
    \/ \E token \in Tokens : regs < MaxRegistryOps /\ Idle(1) /\ UnregisterDevice(token)
    \/ \E in \in CreateInputs : messages = <<>> /\ Idle(1) /\ CreateMessage(in)
    \/ \E id \in 1..MaxMessages : calls = 0 /\ StartTrigger(1, id)
    \/ \E targets \in TargetChoices : calls = 0 /\ StartSend(1, targets)
    \/ SmGet(1)
    \/ SmSending(1)
    \/ SpResolve(1)
    \/ SpChunk(1)
    \/ SpTicket(1)
    \/ SmSent(1)
    \/ faults < MaxFaults /\ StorageFails(1)

Spec == Init /\ [][Next]_vars

\* SpecConcurrent: two requests (trigger by id, process-pending) that interleave
\* at every await, on one stored message and a registry of one endpoint
NextConcurrent ==
    \/ \E in \in RegisterInputs : devices = <<>> /\ RegisterDevice(in)
    \/ \E in \in CreateInputs : messages = <<>> /\ CreateMessage(in)
    \/ \E p \in Procs, id \in 1..MaxMessages : StartTrigger(p, id)
    \/ \E p \in Procs : StartProcess(p)
    \/ \E p \in Procs : PdList(p)
    \/ \E p \in Procs : SmGet(p)
    \/ \E p \in Procs : SmSending(p)
    \/ \E p \in Procs : SpResolve(p)
    \/ \E p \in Procs : SpChunk(p)
    \/ \E p \in Procs : SpTicket(p)
    \/ \E p \in Procs : SmSent(p)
    \/ \E p \in Procs : PdFailed(p)
    \/ \E p \in Procs : faults < MaxFaults /\ StorageFails(p)

SpecConcurrent == Init /\ [][NextConcurrent]_vars

\* SpecScheduler: the scheduler's sweeps and triggers by id, one request at a
\* time, over up to MaxMessages stored messages while the clock advances
NextScheduler ==
    \/ \E in \in RegisterInputs : devices = <<>> /\ Idle(1) /\ RegisterDevice(in)
    \/ \E in \in CreateInputs : Idle(1) /\ CreateMessage(in)
    \/ Idle(1) /\ Tick
    \/ \E id \in 1..MaxMessages : calls < MaxCalls /\ StartTrigger(1, id)
    \/ calls < MaxCalls /\ StartProcess(1)
    \/ PdList(1)
    \/ SmGet(1)
    \/ SmSending(1)
    \/ SpResolve(1)
    \/ SpChunk(1)
    \/ SpTicket(1)
    \/ SmSent(1)
    \/ PdFailed(1)
    \/ faults < MaxFaults /\ StorageFails(1)
    \/ Reset(1)

SpecScheduler == Init /\ [][NextScheduler]_vars

\* SpecRegistry: up to MaxRegistryOps requests to the register and unregister
\* routes, served two at a time and interleaving at every await
NextRegistry ==
    \/ \E p \in Procs, auth \in AuthHeaders, body \in RegisterBodies :
           regs < MaxRegistryOps /\ StartRegister(p, auth, body)
    \/ \E p \in Procs, auth \in AuthHeaders, token \in UnregisterTokens :
           regs < MaxRegistryOps /\ StartUnregister(p, auth, token)
    \/ \E p \in Procs : RrVerify(p)
    \/ \E p \in Procs : RdGet(p)
    \/ \E p \in Procs : RdUpdate(p)
    \/ \E p \in Procs : RdInsert(p)
    \/ \E p \in Procs : UrVerify(p)
    \/ \E p \in Procs : UrGet(p)
    \/ \E p \in Procs : UrWrite(p)
    \/ \E p \in Procs : faults < MaxFaults /\ StorageFails(p)
    \/ \E p \in Procs : Reset(p)

SpecRegistry == Init /\ [][NextRegistry]_vars

\* SpecAdmin: up to MaxCalls + 1 requests to the four admin routes with any
\* x-admin-api-key, one at a time, on a server started with or without
\* ADMIN_API_KEY, while the clock advances
NextAdmin ==
    \/ \E in \in RegisterInputs : devices = <<>> /\ Idle(1) /\ RegisterDevice(in)
    \/ \E apiKey \in ApiKeys, in \in CreateInputs :
           calls < MaxCalls + 1 /\ CreateRoute(1, apiKey, in)
    \/ \E apiKey \in ApiKeys, id \in 1..MaxMessages :
           calls < MaxCalls + 1 /\ TriggerRoute(1, apiKey, id)
    \/ \E apiKey \in ApiKeys, targets \in TargetChoices :
           calls < MaxCalls + 1 /\ SendRoute(1, apiKey, targets)
    \/ \E apiKey \in ApiKeys : calls < MaxCalls + 1 /\ TriggerNothing(1, apiKey)
    \/ \E apiKey \in ApiKeys : calls < MaxCalls + 1 /\ ProcessRoute(1, apiKey)
    \/ \E apiKey \in ApiKeys : calls < MaxCalls + 1 /\ PendingRoute(1, apiKey)
    \/ CrInsert(1)
    \/ GpList(1)
    \/ PdList(1)
    \/ SmGet(1)
    \/ SmSending(1)
    \/ SpResolve(1)
    \/ SpChunk(1)
    \/ SpTicket(1)
    \/ SmSent(1)
    \/ PdFailed(1)
    \/ faults < MaxFaults /\ StorageFails(1)
    \/ Reset(1)
    \/ Idle(1) /\ Tick

SpecAdmin == InitAdmin /\ [][NextAdmin]_vars

----------------------------------------------------------------------------
(* Claims *)

\* sendPushNotification has returned to its caller in invocation l
PushReturned(l) ==
    \/ l.pc = "sm_sent"
    \/ l.kind = "send" /\ l.pc = "done" /\ l.outcome = "returned"

\* the rows of the registry that hold a token
RowsOf(token) == { i \in DOMAIN devices : devices[i].token = token }

\* C1: at-most-one send per message: of two invocations of
\* sendNotificationMessage on the same message, at most one submits to the
\* push gateway, in every interleaving of their storage reads and writes.
C1_AtMostOneSend ==
    \A p \in Procs, q \in Procs :
        (p # q /\ procs[p].msgId # NULL /\ procs[p].msgId = procs[q].msgId)
            => ~(procs[p].subs # <<>> /\ procs[q].subs # <<>>)

\* C2: the status of a message only moves forward along
\* pending -> sending -> sent | failed, and a row whose status is sent or
\* failed is never changed again (status, counters, sentAt).
StatusRank(status) ==
    CASE status = "pending" -> 0 [] status = "sending" -> 1 [] OTHER -> 2

C2_MonotonicAbsorbing ==
    [][ \A i \in DOMAIN messages :
            /\ StatusRank(messages[i].status) <= StatusRank(messages'[i].status)
            /\ messages[i].status \in {"sent", "failed"} => messages'[i] = messages[i]
      ]_vars

\* C3: a trigger for an unknown id returns the "not found" zero result, a
\* trigger for a message whose stored status is not pending returns the
\* "Message already <status>" zero result; neither raises, submits to the
\* gateway or writes to the message store or the registry.
C3_RejectsNonPending ==
    \A p \in Procs :
        LET l == procs[p]
        IN  (l.kind = "trigger" /\ l.pc = "done" /\ l.message.status # "pending")
                => /\ l.subs = <<>>
                   /\ l.writes = 0
                   /\ l.outcome = "returned"
                        => l.result = IF l.message = NoMessage
                                      THEN NotFoundResult
                                      ELSE AlreadyResult(l.message.status)
                   /\ l.outcome = "raised" => l.message = NoMessage /\ faults > 0

C3_Witness ==
    \E p \in Procs :
        /\ procs[p].kind = "trigger" /\ procs[p].pc = "done"
        /\ procs[p].result = AlreadyResult("sending")

\* C4: every gateway ticket is applied to the endpoint whose token was
\* submitted at that ticket's position, whichever chunks succeed or throw.
C4_TicketMatchesEndpoint ==
    \A p \in Procs :
        \A i \in DOMAIN procs[p].applied :
            procs[p].applied[i].device.token = procs[p].applied[i].token

\* C5: when sendPushNotification has returned, every endpoint whose token got
\* a DeviceNotRegistered ticket in that call has enabled = false and is not
\* among the enabled devices any more.
C5_UnregisteredByReturn ==
    \A p \in Procs :
        PushReturned(procs[p]) =>
            \A k \in DOMAIN procs[p].subs :
                \A i \in DOMAIN procs[p].subs[k].tickets :
                    procs[p].subs[k].tickets[i] = TicketDNR =>
                        /\ \A r \in RowsOf(procs[p].subs[k].to[i]) : ~devices[r].enabled
                        /\ procs[p].subs[k].to[i] \notin
                               { d.token : d \in Range(getEnabledDevices(devices)) }

\* C6: when sendNotificationMessage ran on a pending message and returns
\* without a raise, at its return the message row has status sent, sentAt
\* stamped and the counters of the returned SendResult, also when
\* failureCount > 0 or when there was no device or no valid token.
C6_SentWithCounts ==
    [][ \A p \in Procs :
            ( /\ procs[p].pc # "done" /\ procs'[p].pc = "done"
              /\ procs'[p].kind = "trigger" /\ procs'[p].outcome = "returned"
              /\ procs'[p].message.status = "pending" )
            => /\ procs'[p].msgId \in DOMAIN messages'
               /\ messages'[procs'[p].msgId].status = "sent"
               /\ messages'[procs'[p].msgId].sentAt = now
               /\ messages'[procs'[p].msgId].sentAt # NULL
               /\ messages'[procs'[p].msgId].successCount = procs'[p].result.successCount
               /\ messages'[procs'[p].msgId].failureCount = procs'[p].result.failureCount
      ]_vars

C6_Witness ==
    \E p \in Procs :
        /\ procs[p].kind = "trigger" /\ procs[p].pc = "done"
        /\ procs[p].outcome = "returned" /\ procs[p].message.status = "pending"
        /\ procs[p].result.failureCount > 0
        /\ messages[procs[p].msgId].status = "sent"
        /\ messages[procs[p].msgId].failureCount > 0

\* C7: one processPendingNotifications invocation attempts every message that
\* getPendingNotifications returned, whatever happened to the earlier ones
\* (a failure while recording the failed status included).
C7_EveryDueMessageAttempted ==
    \A p \in Procs :
        (procs[p].kind = "process" /\ procs[p].pc = "done")
            => procs[p].attempted = procs[p].pending

\* C8: when audience resolution yields no endpoint, sendPushNotification
\* returns {0, 0, ["No registered devices found"]} without raising, calls the
\* gateway not at all and leaves every device and message row unchanged.
C8_EmptyAudience ==
    [][ \A p \in Procs :
            ( /\ procs[p].pc = "sp_resolve" /\ procs'[p] # procs[p]
              /\ faults' = faults
              /\ ResolveDevices(devices, procs[p].targets) = <<>> )
            => /\ procs'[p].result =
                      SendResult(0, 0, <<ErrText("No registered devices found")>>)
               /\ procs'[p].pc = IF procs[p].kind = "send" THEN "done" ELSE "sm_sent"
               /\ procs'[p].outcome = IF procs[p].kind = "send" THEN "returned" ELSE "none"
               /\ procs'[p].subs = <<>>
               /\ devices' = devices
               /\ messages' = messages
      ]_vars

C8_Witness ==
    \E p \in Procs :
        /\ procs[p].kind = "send" /\ procs[p].pc = "done" /\ procs[p].outcome = "returned"
        /\ procs[p].targets # <<>>
        /\ getEnabledDevices(devices) # <<>>
        /\ procs[p].result = SendResult(0, 0, <<ErrText("No registered devices found")>>)

\* C9: no token that fails the gateway's validator is ever submitted, no
\* gateway call carries more than ChunkSize messages, and once the chunk loop
\* is over every valid candidate token has been submitted, in order.
C9_OnlyValidTokensInChunks ==
    \A p \in Procs :
        LET l == procs[p]
        IN  /\ \A k \in DOMAIN l.subs :
                  /\ Len(l.subs[k].to) <= ChunkSize
                  /\ \A i \in DOMAIN l.subs[k].to : isExpoPushToken(l.subs[k].to[i])
            /\ (l.chunks # <<>> /\ l.ci > Len(l.chunks))
                  => LET candidates == SelectSeq(l.devs, LAMBDA d : isExpoPushToken(d.token))
                     IN  Flat([ k \in DOMAIN l.subs |-> l.subs[k].to ])
                             = [ i \in DOMAIN candidates |-> candidates[i].token ]

C9_Witness ==
    \E p \in Procs :
        /\ PushReturned(procs[p])
        /\ \E i \in DOMAIN procs[p].devs : ~isExpoPushToken(procs[p].devs[i].token)
        /\ SumLen([ k \in DOMAIN procs[p].subs |-> procs[p].subs[k].to ]) = 2

\* C10: a gateway call that throws adds exactly its chunk's size to
\* failureCount and one error string to errors, every other chunk is still
\* submitted, and sendPushNotification returns its counts instead of raising.
RECURSIVE ThrownSize(_)
ThrownSize(subs) ==
    IF subs = <<>> THEN 0
    ELSE (IF Head(subs).threw THEN Len(Head(subs).to) ELSE 0) + ThrownSize(Tail(subs))

C10_ChunkFailureIsolated ==
    \A p \in Procs :
        LET l == procs[p]
            thrown == { k \in DOMAIN l.subs : l.subs[k].threw }
            nonOk == { i \in DOMAIN l.applied : l.applied[i].ticket.status # "ok" }
            gatewayErrors == { i \in DOMAIN l.errors :
                                 l.errors[i] = ErrText("Error: push gateway unavailable") }
        IN  /\ l.failureCount = ThrownSize(l.subs) + Cardinality(nonOk)
            /\ Cardinality(gatewayErrors) = Cardinality(thrown)
            /\ (l.chunks # <<>> /\ l.ci > Len(l.chunks))
                  => [ k \in DOMAIN l.subs |-> l.subs[k].to ] = l.chunks
            /\ (l.chunks # <<>> /\ PushReturned(l))
                  => l.result = SendResult(l.successCount, l.failureCount, l.errors)
            /\ (l.pc = "done" /\ l.outcome = "raised") => faults > 0

C10_Witness ==
    \E p \in Procs :
        /\ PushReturned(procs[p])
        /\ Len(procs[p].subs) = 2
        /\ procs[p].subs[1].threw /\ ~procs[p].subs[2].threw
        /\ procs[p].result.failureCount >= 2

\* C11: within one sendPushNotification call no endpoint is resolved or
\* submitted more than once, whatever targetUserIds holds (a user id named
\* twice included), so each endpoint adds at most 1 to
\* successCount + failureCount.
C11_NoDoubleCounting ==
    \A p \in Procs :
        /\ \A i, j \in DOMAIN procs[p].devs :
               procs[p].devs[i].id = procs[p].devs[j].id => i = j
        /\ LET to == Flat([k \in DOMAIN procs[p].subs |-> procs[p].subs[k].to])
           IN \A i, j \in DOMAIN to : to[i] = to[j] => i = j

\* the request of slot p answers 200 in this step
Answers200(p, kind) ==
    /\ procs[p].kind = kind
    /\ procs[p].pc # "done"
    /\ procs'[p].pc = "done"
    /\ procs'[p].status = 200

C13_UnregisterNonDestructive ==
    [][ \A p \in Procs :
          (procs[p].pc = "ur_write" /\ procs'[p].pc # "ur_write" /\ faults' = faults) =>
              LET token == procs[p].body.token
              IN  /\ procs'[p].status = 200
                  /\ Len(devices') = Len(devices)
                  /\ getDeviceByToken(devices, token) = <<>> => devices' = devices
                  /\ \A i \in DOMAIN devices :
                        /\ devices[i].token # token => devices'[i] = devices[i]
                        /\ devices[i].token = token =>
                              /\ devices'[i] = [devices[i] EXCEPT !.enabled = FALSE]
                              /\ getDeviceByToken(devices', token) = <<devices'[i]>>
                  /\ unregisterDevice(devices', token) = devices' ]_vars

\* a second unregister call returned for a token that was already disabled
C13_Witness ==
    \E p \in Procs :
        /\ procs[p].kind = "unregister"
        /\ procs[p].pc = "done"
        /\ procs[p].status = 200
        /\ procs[p].existing # <<>>
        /\ ~procs[p].existing[1].enabled
        /\ \E i \in DOMAIN devices :
              devices[i].token = procs[p].body.token /\ ~devices[i].enabled

UserIds == {"u1", "u2"}

\* the rows of s, each listed once
ListsExactly(s, rows) ==
    /\ Range(s) = rows
    /\ \A i, j \in DOMAIN s : s[i] = s[j] => i = j

\* C14: getDevicesForUser(u) lists exactly the endpoints owned by u that are
\* enabled and getEnabledDevices lists exactly the enabled endpoints; the
\* audience a send resolves is made of exactly those rows.
C14_AudienceResolution ==
    [][ /\ \A u \in UserIds :
              ListsExactly(getDevicesForUser(devices, u),
                           { d \in Range(devices) : d.userId = u /\ d.enabled })
        /\ ListsExactly(getEnabledDevices(devices),
                        { d \in Range(devices) : d.enabled })
        /\ \A p \in Procs :
              (procs[p].pc = "sp_resolve" /\ procs'[p].pc # "sp_resolve"
                  /\ faults' = faults) =>
                  Range(procs'[p].devs) =
                      IF procs[p].targets = <<>>
                      THEN { d \in Range(devices) : d.enabled }
                      ELSE { d \in Range(devices) :
                                d.enabled /\ d.userId \in Range(procs[p].targets) } ]_vars

\* a send to u1 resolved u1's enabled endpoint and left out u1's disabled one
C14_Witness ==
    \E p \in Procs :
        /\ procs[p].kind = "send"
        /\ procs[p].targets = <<"u1">>
        /\ procs[p].subs = <<>>
        /\ Len(procs[p].devs) = 1
        /\ procs[p].devs[1].enabled
        /\ \E i \in DOMAIN devices : devices[i].userId = "u1" /\ ~devices[i].enabled

\* the messages that are due at time t
DueAt(t) ==
    { m \in Range(messages) :
        m.status = "pending" /\ (m.scheduledFor = NULL \/ m.scheduledFor <= t) }

\* C15: getPendingNotifications returns exactly the messages whose status is
\* pending and whose scheduledFor is null or not after the current time: a
\* message scheduled for later is left out until the clock reaches its time,
\* and a sending, sent or failed message is never returned.
C15_DueSelection ==
    [][ /\ \A t \in 1..MaxNow : ListsExactly(getPendingNotifications(messages, t), DueAt(t))
        /\ \A p \in Procs :
              (procs[p].pc = "pd_list" /\ procs'[p].pc # "pd_list" /\ faults' = faults) =>
                  Range(procs'[p].pending) = { m.id : m \in DueAt(now) } ]_vars

\* a sweep listed a due message and left out a pending one scheduled for later
C15_Witness ==
    \E p \in Procs :
        /\ procs[p].kind = "process"
        /\ procs[p].pending # <<>>
        /\ \E m \in Range(messages) :
              /\ m.status = "pending"
              /\ m.scheduledFor > now
              /\ m.id \notin Range(procs[p].pending)

AdminKinds == {"create", "trigger", "send", "process", "pending"}

\* the middleware turned the request of slot p away
TurnedAway(l) == l.pc = "done" /\ l.outcome = "rejected" /\ l.status \in {401, 503}

\* C16: an admin route's handler runs only when ADMIN_API_KEY is configured
\* and the x-admin-api-key header equals it; without a configured key every
\* request is answered 503, with a missing or different header 401, and such
\* a request touches no message row, no device row and no gateway.
C16_AdminAuthorization ==
    [][ /\ \A p \in Procs :
              LET l == procs'[p]
              IN  l.kind \in AdminKinds =>
                     /\ adminKey = NoKey => TurnedAway(l) /\ l.status = 503
                     /\ (adminKey # NoKey /\ l.apiKey # adminKey) =>
                            TurnedAway(l) /\ l.status = 401
                     /\ (adminKey # NoKey /\ l.apiKey = adminKey) => ~TurnedAway(l)
                     /\ TurnedAway(l) => l.subs = <<>> /\ l.writes = 0 /\ l.applied = <<>>
        /\ \A p \in Procs :
              (procs[p].pc = "idle" /\ TurnedAway(procs'[p])) =>
                  devices' = devices /\ messages' = messages
        /\ messages' # messages =>
              \E p \in Procs : /\ procs[p].kind \in AdminKinds
                               /\ adminKey # NoKey
                               /\ procs[p].apiKey = adminKey ]_vars

\* after an authorized create, a request with a wrong key was answered 401
C16_Witness ==
    \E p \in Procs :
        /\ procs[p].kind \in AdminKinds
        /\ TurnedAway(procs[p])
        /\ procs[p].status = 401
        /\ procs[p].apiKey = "wrong"
        /\ messages # <<>>

\* the user the identity service reports for the request's Authorization
\* header, NoUser when it reports none
Caller(l) == IF l.auth.scheme = "Bearer" THEN AuthMe(l.auth.token) ELSE NoUser

\* C17: the register route reaches the registry only for a caller the identity
\* service verifies and whose id is the userId of the body; an unverifiable
\* caller is answered 401 and a verified caller naming another user 403, both
\* without a change to the registry; the row written is owned by the verified
\* user.
C17_RegistrationAuthorization ==
    [][ /\ \A p \in Procs :
              LET l == procs'[p]
              IN  l.kind = "register" =>
                     /\ (l.pc \in {"rd_get", "rd_update", "rd_insert"}
                            \/ (l.pc = "done" /\ l.status \in {200, 500})) =>
                           Caller(l) # NoUser /\ Caller(l) = l.body.userId
                     /\ (l.pc = "done" /\ l.status = 401) => Caller(l) = NoUser
                     /\ (l.pc = "done" /\ l.status = 403) =>
                           Caller(l) # NoUser /\ Caller(l) # l.body.userId
        /\ \A p \in Procs :
              (procs[p].kind = "register" /\ procs[p].pc # "done"
                  /\ procs'[p].pc = "done" /\ procs'[p].status \in {400, 401, 403}) =>
                  devices' = devices
        /\ \A i \in DOMAIN devices' :
              (i \notin DOMAIN devices \/ devices'[i].userId # devices[i].userId) =>
                  \E p \in Procs : /\ Answers200(p, "register")
                                   /\ devices'[i].token = procs[p].body.token
                                   /\ devices'[i].userId = Caller(procs[p]) ]_vars

\* one register request was answered 403 and another registered an endpoint
C17_Witness ==
    \E p, q \in Procs :
        /\ procs[p].kind = "register" /\ procs[p].pc = "done" /\ procs[p].status = 403
        /\ procs[q].kind = "register" /\ procs[q].pc = "done" /\ procs[q].status = 200
        /\ \E i \in DOMAIN devices : devices[i].userId = procs[q].user

\* C18: whatever register calls run between the unregister route's ownership
\* check and its write, an endpoint is disabled through the route only by a
\* request whose verified user owns it at the moment it is disabled.
C18_DisabledOnlyByOwner ==
    [][ \A p \in Procs :
          Answers200(p, "unregister") =>
              \A i \in DOMAIN devices :
                  (devices[i].enabled /\ ~devices'[i].enabled) =>
                      devices[i].userId = procs[p].user ]_vars

\* the trigger request of slot p (by id or inline) has been answered
TriggerAnswered(p) == procs[p].kind \in {"trigger", "send"} /\ procs[p].pc = "done"

C20_NotifiedOnlyOnOwnOkTicket ==
    \A i \in DOMAIN devices :
        devices[i].lastNotifiedAt # NULL =>
            \E p \in Procs :
                \E k \in DOMAIN procs[p].subs :
                    \E j \in DOMAIN procs[p].subs[k].tickets :
                        /\ procs[p].subs[k].to[j] = devices[i].token
                        /\ procs[p].subs[k].tickets[j].status = "ok"

\* C21: when sendPushNotification returns after submitting at least one valid
\* token, successCount + failureCount is the number of valid endpoints
\* resolved, each counted once (by its ticket or by its chunk's failure),
\* successCount is the number of ok tickets, and endpoints with an invalid
\* token are in neither count.
C21_CountConservation ==
    \A p \in Procs :
        LET l == procs[p]
            valid == { d \in Range(l.devs) : isExpoPushToken(d.token) }
            ok == { i \in DOMAIN l.applied : l.applied[i].ticket.status = "ok" }
        IN  (PushReturned(l) /\ valid # {}) =>
                /\ l.result.successCount + l.result.failureCount = Cardinality(valid)
                /\ l.result.successCount = Cardinality(ok)

\* C22: when audience resolution yields endpoints but none has a token the
\* gateway's validator accepts, sendPushNotification returns
\* {0, number of candidates, ["No valid push tokens found"]}, calls the
\* gateway not at all and leaves every device and message row unchanged.
C22_AllInvalidAudience ==
    [][ \A p \in Procs :
            LET found == ResolveDevices(devices, procs[p].targets)
            IN  ( /\ procs[p].pc = "sp_resolve" /\ procs'[p] # procs[p]
                  /\ faults' = faults
                  /\ found # <<>>
                  /\ \A i \in DOMAIN found : ~isExpoPushToken(found[i].token) )
                => /\ procs'[p].result =
                          SendResult(0, Len(found), <<ErrText("No valid push tokens found")>>)
                   /\ procs'[p].pc = IF procs[p].kind = "send" THEN "done" ELSE "sm_sent"
                   /\ procs'[p].outcome = IF procs[p].kind = "send" THEN "returned" ELSE "none"
                   /\ procs'[p].subs = <<>>
                   /\ devices' = devices
                   /\ messages' = messages
      ]_vars

\* a send whose only candidate had an invalid token has returned
C22_Witness ==
    \E p \in Procs :
        /\ procs[p].kind = "send" /\ procs[p].pc = "done" /\ procs[p].outcome = "returned"
        /\ procs[p].devs # <<>>
        /\ procs[p].subs = <<>>
        /\ procs[p].result =
               SendResult(0, Len(procs[p].devs), <<ErrText("No valid push tokens found")>>)

\* C23: every ticket with a non-ok status adds one to failureCount and one
\* "<token>: <reason>" string to errors, so a result with failureCount > 0
\* carries a non-empty errors list.
C23_EveryNonOkTicketRecorded ==
    \A p \in Procs :
        LET l == procs[p]
            nonOk == { i \in DOMAIN l.applied : l.applied[i].ticket.status # "ok" }
            recorded == { i \in DOMAIN l.errors : l.errors[i].token # "" }
        IN  /\ Cardinality(recorded) = Cardinality(nonOk)
            /\ (PushReturned(l) /\ l.result.failureCount > 0) => l.result.errors # <<>>

GatewayAccepted(l) ==
    \E k \in DOMAIN l.subs :
        \E j \in DOMAIN l.subs[k].tickets : l.subs[k].tickets[j].status = "ok"

\* C25: a message is marked failed only when no notification was accepted by
\* the gateway on its behalf, wherever the attempt raised.
C25_FailedMeansNotSent ==
    [][ \A p \in Procs :
          ( /\ procs[p].pc = "pd_failed" /\ procs'[p] # procs[p]
            /\ messages'[procs[p].msgId].status = "failed" )
          => ~GatewayAccepted(procs[p]) ]_vars

Statuses == {"pending", "sending", "sent", "failed"}
CounterArgs == {NONE, 0, 1}

\* after is before with only row id changed: its status is status, sentAt is
\* stamped exactly when status is sent, a counter is overwritten exactly when
\* its argument is provided, and nothing else of the row differs
StatusFrame(before, after, id, status, successCount, failureCount, t) ==
    /\ DOMAIN after = DOMAIN before
    /\ \A i \in DOMAIN before :
          IF i # id THEN after[i] = before[i]
          ELSE /\ after[i].status = status
               /\ after[i].sentAt = IF status = "sent" THEN t ELSE before[i].sentAt
               /\ after[i].successCount =
                      IF successCount # NONE THEN successCount ELSE before[i].successCount
               /\ after[i].failureCount =
                      IF failureCount # NONE THEN failureCount ELSE before[i].failureCount
               /\ after[i].id = before[i].id
               /\ after[i].data = before[i].data
               /\ after[i].scheduledFor = before[i].scheduledFor

\* C26: updateNotificationStatus(id, status, successCount?, failureCount?)
\* changes only the row with that id: it sets status, stamps sentAt if and
\* only if status is sent, overwrites a counter only when that argument is
\* given (marking a message sending or failed leaves both counters alone) and
\* changes no other field; the dispatcher's status writes are such updates.
C26_UpdateStatusFrame ==
    [][ /\ \A id \in DOMAIN messages, status \in Statuses :
              \A successCount \in CounterArgs, failureCount \in CounterArgs :
                  StatusFrame(messages,
                              updateNotificationStatus(messages, id, status,
                                                       successCount, failureCount, now),
                              id, status, successCount, failureCount, now)
        /\ \A p \in Procs :
              (procs'[p] # procs[p] /\ faults' = faults) =>
                  /\ procs[p].pc = "sm_sending" =>
                        StatusFrame(messages, messages', procs[p].msgId, "sending",
                                    NONE, NONE, now)
                  /\ procs[p].pc = "pd_failed" =>
                        StatusFrame(messages, messages', procs[p].msgId, "failed",
                                    NONE, NONE, now)
                  /\ procs[p].pc = "sm_sent" =>
                        StatusFrame(messages, messages', procs[p].msgId, "sent",
                                    procs[p].result.successCount,
                                    procs[p].result.failureCount, now) ]_vars

\* one message was marked sent with its counts and its sentAt, another was
\* marked failed and has neither
C26_Witness ==
    \E i, j \in DOMAIN messages :
        /\ messages[i].status = "sent"
        /\ messages[i].sentAt # NULL
        /\ messages[i].successCount + messages[i].failureCount > 0
        /\ messages[j].status = "failed"
        /\ messages[j].sentAt = NULL
        /\ messages[j].successCount = 0 /\ messages[j].failureCount = 0

\* C27: concurrent register and unregister calls on the same token all
\* complete without error: a device route answers 500 only after a
\* storage-layer failure.
C27_RacesComplete ==
    \A p \in Procs :
        (procs[p].kind \in {"register", "unregister"} /\ procs[p].pc = "done"
            /\ procs[p].status = 500) => faults > 0

\* ticket j of gateway call k of invocation l says DeviceNotRegistered for token
NotRegisteredTicket(l, token) ==
    \E k \in DOMAIN l.subs :
        \E j \in DOMAIN l.subs[k].tickets :
            l.subs[k].to[j] = token /\ l.subs[k].tickets[j] = TicketDNR

\* C28: a sendPushNotification call creates and deletes no endpoint row and
\* changes no endpoint's owner, token or platform; it changes enabled only
\* from true to false and only for an endpoint whose own ticket said
\* DeviceNotRegistered; it changes no message row.
C28_DispatcherFrame ==
    [][ \A p \in Procs :
          (procs[p].pc \in {"sp_resolve", "sp_chunk", "sp_ticket"}
              /\ procs'[p] # procs[p]) =>
              /\ messages' = messages
              /\ DOMAIN devices' = DOMAIN devices
              /\ \A i \in DOMAIN devices :
                    /\ devices'[i].id = devices[i].id
                    /\ devices'[i].userId = devices[i].userId
                    /\ devices'[i].token = devices[i].token
                    /\ devices'[i].platform = devices[i].platform
                    /\ devices'[i].deviceModel = devices[i].deviceModel
                    /\ devices'[i].enabled # devices[i].enabled =>
                          /\ devices[i].enabled
                          /\ NotRegisteredTicket(procs[p], devices[i].token) ]_vars

\* C29: once every invocation has finished, no message has status sending:
\* an invocation that moved a message to sending has moved it on to sent or
\* failed, also when a storage call or the final status write raised.
C29_NoStuckSending ==
    (\A p \in Procs : procs[p].pc \in {"idle", "done"}) =>
        \A i \in DOMAIN messages : messages[i].status # "sending"

\* message i is scheduled for a time that has not come
NotYetDue(i) == messages[i].scheduledFor # NULL /\ now < messages[i].scheduledFor

\* C30 (as stated): while now < scheduledFor a stored message stays pending
\* and nothing is submitted to the gateway on its behalf, through any entry
\* point.
C30_NotDispatchedEarly ==
    \A i \in DOMAIN messages :
        NotYetDue(i) =>
            /\ messages[i].status = "pending"
            /\ \A p \in Procs : procs[p].msgId = i => procs[p].subs = <<>>

\* no sweep in ps has attempted a message of msgs that is not due at time t
SweepsOnTime(msgs, ps, t) ==
    \A i \in DOMAIN msgs :
        (msgs[i].scheduledFor # NULL /\ t < msgs[i].scheduledFor) =>
            \A p \in Procs : ps[p].kind = "process" => i \notin Range(ps[p].attempted)

\* C30 (amended): processPendingNotifications never attempts a message
\* before its scheduledFor; a message that leaves pending or is submitted to
\* the gateway before that time is being sent by a trigger that names its id.
C30_SweepNotEarly ==
    [][ /\ SweepsOnTime(messages, procs, now)
        /\ SweepsOnTime(messages', procs', now')
        /\ \A i \in DOMAIN messages :
              NotYetDue(i) =>
                  /\ messages'[i].status # messages[i].status =>
                        \E p \in Procs : /\ procs[p].kind = "trigger"
                                         /\ procs[p].msgId = i
                                         /\ procs'[p] # procs[p]
                  /\ \A p \in Procs :
                        (procs[p].msgId = i /\ procs'[p].msgId = i
                            /\ Len(procs'[p].subs) > Len(procs[p].subs)) =>
                            procs[p].kind = "trigger" ]_vars

\* a sweep has finished before the time of a scheduled message and has left
\* it alone
C30_Witness ==
    \E p \in Procs, i \in DOMAIN messages :
        /\ procs[p].kind = "process" /\ procs[p].pc = "done"
        /\ procs[p].attempted # <<>>
        /\ NotYetDue(i)
        /\ messages[i].status = "pending"
        /\ i \notin Range(procs[p].attempted)

====
